---- MODULE Spec2Model ----
(***************************************************************************)
(* The scoring-and-selection core of summarize.py: extent/overlaps, the    *)
(* two frequency distributions, the sweep of score_sentences and the       *)
(* ranking and selection of summarize, as a state machine over one ADM.    *)
(***************************************************************************)
EXTENDS Integers, Sequences, FiniteSets, TLC

\* ------------------------------------------------------------------ bounds
\* The largest number of sentences, tokens and entity mentions of a document.
MaxSent == 3
MaxTok == 2
MaxMent == 2

\* ------------------------------------------------------- Python's values
\* None, the empty dict {} and dict.get(k, d).  A dict is a function whose
\* domain is the set of its keys, so a missing field is a missing key.
None == "None"
EmptyDict == [k \in {} |-> None]
Get(obj, k, d) == IF k \in DOMAIN obj THEN obj[k] ELSE d
Truthy(x) == x \notin {None, ""}
Max(a, b) == IF a >= b THEN a ELSE b
Min(a, b) == IF a <= b THEN a ELSE b

\* range(a, b): the integers a, a+1, ..., b-1 (empty when b <= a).
Range(a, b) == a .. (b - 1)

\* The outcomes of a call that does not return normally.
IndexError == "IndexError"
ZeroDivisionError == "ZeroDivisionError"

\* ------------------------------------------------------------- constants
CONTENTFUL_POS_TAGS == {"ADJ", "ADV", "NOUN", "PROPN", "VERB"}

CONTENTFUL_ENTITY_TYPES ==
    {"IDENTIFIER:DISTANCE", "IDENTIFIER:LATITUDE_LONGITUDE", "IDENTIFIER:MONEY",
     "LOCATION", "NATIONALITY", "ORGANIZATION", "PERSON", "PRODUCT", "RELIGION",
     "TEMPORAL:DATE", "TITLE"}

\* ------------------------------------------------------ extent, overlaps
\* extent(obj): (obj.get('startOffset', -1), obj.get('endOffset', -1)); each
\* field defaults on its own.
extent(obj) == <<Get(obj, "startOffset", -1), Get(obj, "endOffset", -1)>>

\* overlaps(a, b): the set of character offsets the two objects share.
overlaps(a, b) ==
    Range(extent(a)[1], extent(a)[2]) \cap Range(extent(b)[1], extent(b)[2])

\* Tuples of offsets compare lexicographically (the key of sorted(.., key=extent)).
OffsetsLess(s, t) == s[1] < t[1] \/ (s[1] = t[1] /\ s[2] < t[2])
ExtentLess(a, b) == OffsetsLess(extent(a), extent(b))

\* ------------------------------------------------------- entity mentions
\* entity_mentions(adm) sets mention['type'] = entity.get('type') on every
\* mention, in place, and yields the mentions entity by entity.
AugmentEntity(entity) ==
    [entity EXCEPT !.mentions =
        [m \in DOMAIN @ |-> ("type" :> Get(entity, "type", None)) @@ @[m]]]

AugmentEntities(entities) ==
    [e \in DOMAIN entities |-> AugmentEntity(entities[e])]

RECURSIVE Flatten(_)
Flatten(seqs) ==
    IF Len(seqs) = 0 THEN << >> ELSE Head(seqs) \o Flatten(Tail(seqs))

entity_mentions(entities) ==
    Flatten([e \in DOMAIN entities |-> AugmentEntity(entities[e]).mentions])

\* ------------------------------------------------------------ token keys
\* token.get('analyses', [{}])[0] raises IndexError on an empty list.
AnalysisRaises(token) == Len(Get(token, "analyses", <<EmptyDict>>)) = 0

analysis(token) == Get(token, "analyses", <<EmptyDict>>)[1]

\* morphotagged or lemma_pos.  A key is a tuple: <<raw>> for the raw string,
\* <<lemma, partOfSpeech>> for the pair, so a string never equals a pair.
token_key(token) ==
    LET morphotagged == Get(analysis(token), "raw", None)
        lemma_pos == <<Get(analysis(token), "lemma", None),
                       Get(analysis(token), "partOfSpeech", None)>>
    IN  IF Truthy(morphotagged) THEN <<morphotagged>> ELSE lemma_pos

entity_key(mention) == Get(mention, "entityId", None)

\* collections.Counter over a sequence of keys.
Counter(keys) ==
    [k \in {keys[j] : j \in DOMAIN keys} |->
        Cardinality({j \in DOMAIN keys : keys[j] = k})]

TokenIsContentful(token) ==
    Get(analysis(token), "partOfSpeech", None) \in CONTENTFUL_POS_TAGS

MentionIsContentful(mention) ==
    Get(mention, "type", None) \in CONTENTFUL_ENTITY_TYPES

\* lemma_fd(adm) calls analysis on every token, and so raises IndexError when
\* some token has an empty list of analyses; otherwise it returns the Counter.
LemmaFdRaises(tokenItems) ==
    \E j \in DOMAIN tokenItems : AnalysisRaises(tokenItems[j])

lemma_fd(tokenItems) ==
    LET contentful == SelectSeq(tokenItems, TokenIsContentful)
    IN  Counter([j \in DOMAIN contentful |-> token_key(contentful[j])])

entity_fd(entities) ==
    LET contentful == SelectSeq(entity_mentions(entities), MentionIsContentful)
    IN  Counter([j \in DOMAIN contentful |-> entity_key(contentful[j])])

\* score(item, fd, key): fd.get(key(item), 0); key names the key method,
\* token_key or entity_key.
KeyOf(key, item) == IF key = "token_key" THEN token_key(item) ELSE entity_key(item)
score(item, fd, key) == Get(fd, KeyOf(key, item), 0)

\* -------------------------------------------------------------- get_text
\* seq[a:b] with Python's treatment of negative and out-of-range indices.
Slice(seq, a, b) ==
    LET norm(x) == IF x < 0 THEN Max(x + Len(seq), 0) ELSE Min(x, Len(seq))
    IN  SubSeq(seq, norm(a) + 1, norm(b))

get_text(data, obj) == Slice(data, extent(obj)[1], extent(obj)[2])

\* text.rstrip('\r\n'): drops every trailing carriage return and line feed.
RECURSIVE rstrip(_)
rstrip(text) ==
    IF Len(text) > 0 /\ text[Len(text)] \in {"\r", "\n"}
    THEN rstrip(SubSeq(text, 1, Len(text) - 1))
    ELSE text

\* '\n'.join(texts)
RECURSIVE join(_)
join(texts) ==
    IF Len(texts) = 0 THEN << >>
    ELSE IF Len(texts) = 1 THEN texts[1]
    ELSE texts[1] \o <<"\n">> \o join(Tail(texts))

\* ---------------------------------------------------------------- floats
\* A Python float is an IEEE 754 double: a mantissa of 53 bits and a power of
\* two, every operation rounded to the nearest double, halves to the even
\* mantissa.  A positive double is the record [e, m] of value M * 2^e, M the
\* number of the four limbs m in base 2^14 (56 bits): 2^55 <= M < 2^56, and the
\* low 3 bits of M are 0.  (Scores, counts and percents are never negative,
\* subnormal, infinite or NaN.)
Limb == 16384
FloatZero == [e |-> 0, m |-> <<0, 0, 0, 0>>]
FloatIsZero(x) == x.m[1] = 0

\* 2^k for k in 0..30.
PowersOf2 == <<
    1, 2, 4, 8, 16, 32, 64, 128, 256, 512, 1024, 2048, 4096, 8192, 16384,
    32768, 65536, 131072, 262144, 524288, 1048576, 2097152, 4194304,
    8388608, 16777216, 33554432, 67108864, 134217728, 268435456,
    536870912, 1073741824 >>
Pow2(k) == PowersOf2[k + 1]

\* The mantissa m plus 8 when `up`, its low 3 bits cleared; a carry out of the
\* top limb leaves it at Limb.
RoundedLimbs(m, up) ==
    LET l4 == m[4] - (m[4] % 8) + (IF up THEN 8 ELSE 0)
        l3 == m[3] + (l4 \div Limb)
        l2 == m[2] + (l3 \div Limb)
    IN  <<m[1] + (l2 \div Limb), l2 % Limb, l3 % Limb, l4 % Limb>>

FloatNormalised(e, m) ==
    IF m[1] = Limb THEN [e |-> e + 1, m |-> <<Limb \div 2, 0, 0, 0>>]
    ELSE [e |-> e, m |-> m]

\* Round a normalised 56-bit quotient or product, `sticky` telling whether
\* bits were lost below it, to 53 bits: to nearest, halves to even.
FloatRounded(e, m, sticky) ==
    FloatNormalised(e, RoundedLimbs(m,
        (m[4] % 8) >= 4 /\ (sticky \/ (m[4] % 4) # 0 \/ ((m[4] \div 8) % 2) = 1)))

\* Long division: the next k bits of the quotient of rem by b, rem < b,
\* appended to the bits acc, and the remainder left.  The bits are taken 14 at
\* a time where the shifted remainder stays below 2^31, one at a time
\* otherwise.
RECURSIVE DivBits(_, _, _, _)
DivBits(rem, b, k, acc) ==
    IF k = 0 THEN <<acc, rem>>
    ELSE LET step == IF b <= 65536 THEN Min(k, 14) ELSE 1
             shifted == rem * Pow2(step)
         IN  DivBits(shifted % b, b, k - step, acc * Pow2(step) + (shifted \div b))

\* <<a', b', s>> with a / b = (a' / b') * 2^s and b' <= a' < 2 b'.
RECURSIVE DivScaled(_, _, _)
DivScaled(a, b, s) ==
    IF a < b THEN DivScaled(2 * a, b, s - 1)
    ELSE IF a >= 2 * b THEN DivScaled(a, 2 * b, s + 1)
    ELSE <<a, b, s>>

\* The 56 quotient bits of a' / b' as four limbs, the first bit being 1, and
\* whether a remainder is left.
RECURSIVE DivLimbs(_, _, _)
DivLimbs(rem, b, limbs) ==
    IF Len(limbs) = 4 THEN <<limbs, rem # 0>>
    ELSE LET next == DivBits(rem, b, 14, 0)
         IN  DivLimbs(next[2], b, Append(limbs, next[1]))

FloatOfQuotient(sc) ==
    LET first == DivBits(sc[1] - sc[2], sc[2], 13, 1)
        rest == DivLimbs(first[2], sc[2], <<first[1]>>)
    IN  FloatRounded(sc[3] - 55, rest[1], rest[2])

\* a / b for two integers a >= 0 and b >= 1 (true division, correctly rounded;
\* float(a) when b = 1).
FloatDiv(a, b) ==
    IF a = 0 THEN FloatZero ELSE FloatOfQuotient(DivScaled(a, b, 0))

\* float(100)
Float100 == FloatDiv(100, 1)

\* The columns of the long multiplication of two mantissas, and the eight
\* limbs of the product once the carries are passed on.
LimbColumns(a, b) ==
    <<a[1] * b[1],
      a[1] * b[2] + a[2] * b[1],
      a[1] * b[3] + a[2] * b[2] + a[3] * b[1],
      a[1] * b[4] + a[2] * b[3] + a[3] * b[2] + a[4] * b[1],
      a[2] * b[4] + a[3] * b[3] + a[4] * b[2],
      a[3] * b[4] + a[4] * b[3],
      a[4] * b[4]>>

RECURSIVE Carried(_, _, _)
Carried(cols, j, carry) ==
    IF j = 0 THEN <<carry>>
    ELSE Append(Carried(cols, j - 1, (cols[j] + carry) \div Limb),
                (cols[j] + carry) % Limb)

\* The product p of two mantissas, of 111 or 112 bits, as a float.
FloatOfProduct(e, p) ==
    IF p[1] >= Limb \div 2
    THEN FloatRounded(e + 56, <<p[1], p[2], p[3], p[4]>>,
                      p[5] # 0 \/ p[6] # 0 \/ p[7] # 0 \/ p[8] # 0)
    ELSE FloatRounded(e + 55,
                      [j \in 1..4 |-> ((2 * p[j]) % Limb) + (p[j + 1] \div (Limb \div 2))],
                      (p[5] % (Limb \div 2)) # 0 \/ p[6] # 0 \/ p[7] # 0 \/ p[8] # 0)

\* x * y
FloatMul(x, y) ==
    IF FloatIsZero(x) \/ FloatIsZero(y) THEN FloatZero
    ELSE FloatOfProduct(x.e + y.e, Carried(LimbColumns(x.m, y.m), 7, 0))

\* x < y
FloatLess(x, y) ==
    IF FloatIsZero(y) THEN FALSE
    ELSE IF FloatIsZero(x) THEN TRUE
    ELSE IF x.e # y.e THEN x.e < y.e
    ELSE \E j \in 1..4 : x.m[j] < y.m[j] /\ \A h \in 1..(j - 1) : x.m[h] = y.m[h]

\* The number of the top k bits of the mantissa, and whether the bits below
\* them are all 0.
TopBits(m, k) ==
    LET part(j) == IF k >= 14 * j THEN m[j] * Pow2(k - 14 * j)
                   ELSE IF k > 14 * (j - 1) THEN m[j] \div Pow2(14 * j - k)
                   ELSE 0
    IN  part(1) + part(2) + part(3) + part(4)
LowBitsZero(m, k) ==
    \A j \in 1..4 :
        IF k >= 14 * j THEN TRUE
        ELSE IF k > 14 * (j - 1) THEN (m[j] % Pow2(14 * j - k)) = 0
        ELSE m[j] = 0

\* int(x): x truncated to an integer.
FloatFloor(x) ==
    IF FloatIsZero(x) \/ 56 + x.e <= 0 THEN 0
    ELSE TopBits(x.m, Min(56 + x.e, 56)) * Pow2(Max(x.e, 0))

\* '{:0.0f}'.format(x): x rounded to an integer, to nearest, halves to even.
FloatRound(x) ==
    LET k == 56 + x.e
    IN  IF FloatIsZero(x) \/ k < 0 THEN 0
        ELSE IF k >= 56 THEN FloatFloor(x)
        ELSE LET twice == TopBits(x.m, k + 1)
                 whole == twice \div 2
                 exact == LowBitsZero(x.m, k + 1)
             IN  IF (twice % 2) = 0 THEN whole
                 ELSE IF exact THEN whole + (whole % 2)
                 ELSE whole + 1

\* math.log(k) for k = 2, 3, ..: the doubles the C library returns.
LogTable == <<
    [e |-> -56, m |-> <<11356, 8575, 8007, 3960>>],
    [e |-> -55, m |-> <<8999, 13629, 5536, 6232>>],
    [e |-> -55, m |-> <<11356, 8575, 8007, 3960>>],
    [e |-> -55, m |-> <<13184, 8443, 15793, 10648>>],
    [e |-> -55, m |-> <<14678, 1533, 1348, 16>>],
    [e |-> -55, m |-> <<15940, 14679, 1611, 4792>>],
    [e |-> -54, m |-> <<8517, 6431, 10101, 7064>>],
    [e |-> -54, m |-> <<8999, 13629, 5536, 6232>>],
    [e |-> -54, m |-> <<9431, 6365, 13994, 10416>>],
    [e |-> -54, m |-> <<9821, 12763, 12262, 14944>>],
    [e |-> -54, m |-> <<10178, 2910, 6771, 13288>>],
    [e |-> -54, m |-> <<10506, 533, 9777, 8840>>],
    [e |-> -54, m |-> <<10809, 9483, 6903, 7480>>],
    [e |-> -54, m |-> <<11092, 2844, 10665, 248>>],
    [e |-> -54, m |-> <<11356, 8575, 8007, 3960>>],
    [e |-> -54, m |-> <<11604, 13792, 16207, 15312>>],
    [e |-> -54, m |-> <<11838, 15773, 3442, 3120>>],
    [e |-> -54, m |-> <<12060, 6915, 150, 6496>>],
    [e |-> -54, m |-> <<12270, 8509, 11900, 7304>>],
    [e |-> -54, m |-> <<12470, 5962, 3573, 13704>>],
    [e |-> -54, m |-> <<12660, 14907, 10168, 11840>>],
    [e |-> -54, m |-> <<12842, 16126, 14902, 8064>>],
    [e |-> -54, m |-> <<13017, 5054, 4677, 10184>>],
    [e |-> -54, m |-> <<13184, 8443, 15793, 10648>>],
    [e |-> -54, m |-> <<13345, 2677, 7683, 5736>>],
    [e |-> -54, m |-> <<13499, 12252, 112, 9344>>],
    [e |-> -54, m |-> <<13648, 11627, 4809, 4376>>],
    [e |-> -54, m |-> <<13792, 7269, 14783, 12536>>],
    [e |-> -54, m |-> <<13931, 4988, 8570, 13528>>],
    [e |-> -54, m |-> <<14065, 10020, 4645, 6864>>],
    [e |-> -54, m |-> <<14195, 10719, 5913, 856>>],
    [e |-> -54, m |-> <<14321, 11386, 6839, 1672>>],
    [e |-> -54, m |-> <<14443, 15936, 14113, 12208>>],
    [e |-> -54, m |-> <<14562, 11561, 8702, 7720>>],
    [e |-> -54, m |-> <<14678, 1533, 1348, 16>>],
    [e |-> -54, m |-> <<14790, 5239, 1880, 15848>>],
    [e |-> -54, m |-> <<14899, 9058, 14440, 3392>>],
    [e |-> -54, m |-> <<15005, 15540, 4353, 11952>>],
    [e |-> -54, m |-> <<15109, 10653, 9806, 4200>>],
    [e |-> -54, m |-> <<15210, 12962, 12757, 8816>>] >>
log(k) == LogTable[k - 1]

\* ---------------------------------------------------------------- scores
\* A sentence's score is kept as the three integers it is computed from: num
\* the summed frequencies (line 541, 546), den = max(tokenLength, 1) (line 549)
\* and arg = len(sentences) - i + 1 (line 553).  The float in
\* sentence['score'] is (num / den) * log(arg), rounded after the division and
\* after the multiplication.
ScoreValue(x) == FloatMul(FloatDiv(x.num, x.den), log(x.arg))
ScoreLess(x, y) == FloatLess(ScoreValue(x), ScoreValue(y))
ScoreIsZero(x) == FloatIsZero(ScoreValue(x))

\* The key of an item under sorted(.., key=extent) or
\* sorted(.., key=itemgetter('score')), and the strict order of two keys.
SortKey(key, item) ==
    IF key = "extent" THEN extent(item) ELSE ScoreValue(item.score)
KeyLess(key, a, b) ==
    IF key = "extent" THEN OffsetsLess(a, b) ELSE FloatLess(a, b)

\* The items of list in the order of their keys: a stable sort, also when
\* reversed.  An item's place is the number of items that sort before it plus
\* the number of earlier items with an equal key.
SortedByKeys(list, keys, key, reverse) ==
    LET before(a, b) == IF reverse THEN KeyLess(key, keys[b], keys[a])
                        ELSE KeyLess(key, keys[a], keys[b])
        place == [j \in DOMAIN list |->
            Cardinality({k \in DOMAIN list : before(k, j)})
          + Cardinality({k \in DOMAIN list :
                            /\ k < j
                            /\ ~before(k, j)
                            /\ ~before(j, k)})]
    IN  SubSeq([r \in 1..Len(list) |->
                   list[CHOOSE j \in DOMAIN list : place[j] = r - 1]], 1, Len(list))

\* sorted(items, key=.., reverse=..): the key of every item is computed once.
sorted(items, key, reverse) ==
    SortedByKeys(SubSeq(items, 1, Len(items)),
                 SubSeq([j \in DOMAIN items |-> SortKey(key, items[j])], 1, Len(items)),
                 key, reverse)

\* ----------------------------------------------------------------- state
VARIABLES
    adm,                 \* the ADM: data, sentences, tokens, entities, summary
    pc,                  \* where the call of summarize stands
    err,                 \* the exception the call ended with, or None
    lemma_frequencies,   \* score_sentences: lemma_fd(adm)
    entity_frequencies,  \* score_sentences: entity_fd(adm)
    tokens,              \* score_sentences: the sorted tokens not yet popped
    mentions,            \* score_sentences: the sorted mentions not yet popped
    token,               \* score_sentences: the current token
    mention,             \* score_sentences: the current mention
    i,                   \* score_sentences: the index of the next sentence
    summarize_percent,   \* summarize: the percent argument, as <<num, den>>
    n,                   \* summarize: n, once resolved
    args,                \* summarize: the arguments as passed
    top_n                \* summarize: the selected sentences in reading order

vars == <<adm, pc, err, lemma_frequencies, entity_frequencies, tokens, mentions,
          token, mention, i, summarize_percent, n, args, top_n>>

\* ---------------------------------------------------------------- inputs
\* Sentence k covers the two characters [2(k-1), 2k): sentences are non-empty,
\* non-overlapping and in left-to-right order.  The text is one letter and one
\* line feed per sentence.
Letters == <<"a", "b", "c", "d", "e", "f">>
Sentences(T) == [k \in 1..T |-> [startOffset |-> 2 * (k - 1), endOffset |-> 2 * k]]
DocText(T) ==
    [p \in 1..(2 * T) |-> IF p % 2 = 1 THEN Letters[(p + 1) \div 2] ELSE "\n"]
Positions == 0 .. (2 * MaxSent - 1)
Span(p) == [startOffset |-> p, endOffset |-> p + 1]

SeqsUpTo(S, k) == UNION {[1..m -> S] : m \in 0..k}

\* The lists of at most k items of S at distinct places of the text, given in
\* reading order or in the reverse of it.
ListsUpTo(S, k) ==
    {s \in SeqsUpTo(S, k) :
        \/ \A j \in 1..(Len(s) - 1) : ExtentLess(s[j], s[j + 1])
        \/ \A j \in 1..(Len(s) - 1) : ExtentLess(s[j + 1], s[j])}

NounCat == [partOfSpeech |-> "NOUN", lemma |-> "cat", raw |-> "cat[+NOUN]"]
VerbRun == [partOfSpeech |-> "VERB", lemma |-> "run"]
DetThe == [partOfSpeech |-> "DET", lemma |-> "the", raw |-> "the[+DET]"]

\* Tokens with both offsets and one analysis, at any position of the text.
WellFormedTokens ==
    {Span(p) @@ [analyses |-> <<a>>] : p \in Positions, a \in {NounCat, DetThe}}

Entity(id, type, ms) == [entityId |-> id, type |-> type, mentions |-> ms]

BaselineTokens == {<< >>, <<Span(0) @@ [analyses |-> <<NounCat>>]>>}
BaselineEntities == {<< >>, <<Entity("Q1", "PERSON", <<Span(0)>>)>>}

\* Entities: at most two, Q1 and Q2, each of a contentful or of another type,
\* with at most MaxMent mentions between them; a mention covers the first
\* character of a sentence.
MentionSpans == {Span(2 * (k - 1)) : k \in 1..MaxSent}
EntityTypes == {"PERSON", "IDENTIFIER:URL"}
EntityLists ==
    LET lists == ListsUpTo(MentionSpans, MaxMent)
    IN  {<< >>}
        \cup {<<Entity("Q1", t, ms)>> : t \in EntityTypes, ms \in lists}
        \cup {<<Entity("Q1", tm[1], mm[1]), Entity("Q2", tm[2], mm[2])>> :
                 tm \in EntityTypes \X EntityTypes,
                 mm \in {x \in lists \X lists : Len(x[1]) + Len(x[2]) <= MaxMent}}

\* Items of which startOffset, endOffset or both may be missing.
OffsetVariants ==
    {[endOffset |-> p + 1] : p \in Positions}
        \cup {[startOffset |-> p] : p \in Positions}
        \cup {Span(p) : p \in Positions}
        \cup {EmptyDict}
OffsetTokens == {x @@ [analyses |-> <<NounCat>>] : x \in OffsetVariants}

\* Tokens of which the analyses may be missing, or an empty list.
AnalysesTokens ==
    {Span(p) @@ [analyses |-> a] :
        p \in Positions, a \in {<< >>, <<NounCat>>, <<VerbRun>>, <<DetThe>>}}
        \cup {Span(p) : p \in Positions}

\* The percent argument as the float num / den (the default 0.15, and 1/2, 2/3,
\* 3/4 and 1), the percent passed along with an explicit n, and the explicit n.
Percents == {<<3, 20>>, <<1, 2>>, <<2, 3>>, <<3, 4>>, <<1, 1>>}
AnyPercent == {<<3, 20>>, <<1, 1>>}
ExplicitN == 1 .. (MaxSent + 1)

InitWith(tokenLists, entityLists) ==
    /\ \E T \in 0..MaxSent, toks \in tokenLists, ents \in entityLists :
          adm = [data |-> DocText(T), sentences |-> Sentences(T),
                 tokens |-> toks, entities |-> ents]
    /\ pc = "score_sentences"
    /\ err = None
    /\ lemma_frequencies = EmptyDict
    /\ entity_frequencies = EmptyDict
    /\ tokens = << >>
    /\ mentions = << >>
    /\ token = EmptyDict
    /\ mention = EmptyDict
    /\ i = 0
    /\ summarize_percent = None
    /\ n = None
    /\ args = None
    /\ top_n = << >>

\* Well-formed tokens, the entities of the baseline.
Init == InitWith(ListsUpTo(WellFormedTokens, MaxTok), BaselineEntities)

\* The tokens of the baseline, the entities and their mentions varied.
InitEntities == InitWith(BaselineTokens, EntityLists)

\* Tokens, or the one mention, with missing offsets.
InitOffsets ==
    \/ InitWith(SeqsUpTo(OffsetTokens, MaxTok), BaselineEntities)
    \/ InitWith(BaselineTokens,
                {<<Entity("Q1", "PERSON", <<x>>)>> : x \in OffsetVariants})

\* Tokens with missing or empty analyses.
InitAnalyses == InitWith(ListsUpTo(AnalysesTokens, MaxTok), BaselineEntities)

\* Well-formed tokens in reading order, one more than elsewhere: the sweep
\* pops a token at the start of every sentence, so it takes three tokens for
\* two sentences to be matched a token each.
InitDecay ==
    InitWith({s \in ListsUpTo(WellFormedTokens, MaxTok + 1) :
                 \A j \in 1..(Len(s) - 1) : ExtentLess(s[j], s[j + 1])},
             BaselineEntities)

\* --------------------------------------------------------- score_sentences
\* Lines 529-533: the two frequency distributions and the two sorted queues.
\* entity_mentions leaves every mention of the ADM with its entity's type.
ScoreSetup ==
    /\ pc = "score_sentences"
    /\ IF LemmaFdRaises(adm.tokens)
       THEN /\ pc' = "raised"
            /\ err' = IndexError
            /\ UNCHANGED <<adm, lemma_frequencies, entity_frequencies, tokens,
                           mentions>>
       ELSE /\ lemma_frequencies' = lemma_fd(adm.tokens)
            /\ entity_frequencies' = entity_fd(adm.entities)
            /\ adm' = [adm EXCEPT !.entities = AugmentEntities(@)]
            /\ tokens' = sorted(adm.tokens, "extent", FALSE)
            /\ mentions' = sorted(entity_mentions(adm.entities), "extent", FALSE)
            /\ pc' = "sweep"
            /\ UNCHANGED err
    /\ UNCHANGED <<token, mention, i, summarize_percent, n, args, top_n>>

\* x.pop(0) if x else {}
PopItem(queue) == IF Len(queue) > 0 THEN Head(queue) ELSE EmptyDict
PopRest(queue) == IF Len(queue) > 0 THEN Tail(queue) ELSE queue

\* Lines 540-543: while the current token overlaps the sentence, add its
\* frequency, pop the next token and count it.
RECURSIVE TokenLoop(_, _)
TokenLoop(st, sentence) ==
    IF overlaps(st.token, sentence) # {}
    THEN TokenLoop([num |-> st.num + score(st.token, lemma_frequencies, "token_key"),
                    token |-> PopItem(st.tokens),
                    tokens |-> PopRest(st.tokens),
                    tokenLength |-> st.tokenLength + 1], sentence)
    ELSE st

\* The mention loop as a do-while: the frequency of the mention that ends the
\* loop, which does not overlap the sentence, is added as well.
RECURSIVE MentionLoopAddsLast(_, _)
MentionLoopAddsLast(st, sentence) ==
    LET added == st.num + score(st.mention, entity_frequencies, "entity_key")
    IN  IF overlaps(st.mention, sentence) # {}
        THEN MentionLoopAddsLast([num |-> added,
                                  mention |-> PopItem(st.mentions),
                                  mentions |-> PopRest(st.mentions)], sentence)
        ELSE [st EXCEPT !.num = added]

\* Lines 545-547: while the current mention overlaps the sentence, add its
\* frequency and pop the next mention.
RECURSIVE MentionLoop(_, _)
MentionLoop(st, sentence) ==
    IF overlaps(st.mention, sentence) # {}
    THEN MentionLoop([num |-> st.num + score(st.mention, entity_frequencies, "entity_key"),
                      mention |-> PopItem(st.mentions),
                      mentions |-> PopRest(st.mentions)], sentence)
    ELSE st

\* A decay that ignores the position: every sentence is weighted like the
\* first one.
DecayArgOfFirst(total, index) == total + 1

\* Line 553: the argument of the log the score is multiplied by, for the
\* sentence of zero-based index `index` among `total` sentences.
DecayArg(total, index) == total - index + 1

\* Lines 534-553: one pass of the loop over the sentences.
ScoreSentence ==
    /\ pc = "sweep"
    /\ i < Len(adm.sentences)
    /\ LET sentence == adm.sentences[i + 1]
           afterTokens == TokenLoop([num |-> 0, token |-> PopItem(tokens),
                                     tokens |-> PopRest(tokens),
                                     tokenLength |-> 0], sentence)
           afterMentions == MentionLoop([num |-> afterTokens.num,
                                         mention |-> PopItem(mentions),
                                         mentions |-> PopRest(mentions)], sentence)
           scored == [num |-> afterMentions.num,
                      den |-> Max(afterTokens.tokenLength, 1),
                      arg |-> DecayArg(Len(adm.sentences), i)]
       IN  /\ adm' = [adm EXCEPT !.sentences[i + 1] =
                        [score |-> scored, tokenLength |-> afterTokens.tokenLength] @@ @]
           /\ token' = afterTokens.token
           /\ tokens' = afterTokens.tokens
           /\ mention' = afterMentions.mention
           /\ mentions' = afterMentions.mentions
    /\ i' = i + 1
    /\ UNCHANGED <<pc, err, lemma_frequencies, entity_frequencies,
                   summarize_percent, n, args, top_n>>

\* --------------------------------------------------------------- summarize
\* '{:0.0%}'.format(x) for the float x = x[1] / x[2]: the float 100 * x
\* rounded to an integer, halves to the even one.
FormatPercent(x) == FloatRound(FloatMul(FloatDiv(x[1], x[2]), Float100))

\* The ranking as an ascending sort turned around, which also turns the
\* sentences of equal score around.
RankedByReversal(data, sentences) ==
    LET ascending == sorted([k \in DOMAIN sentences |->
                                ("text" :> get_text(data, sentences[k])) @@ sentences[k]],
                            "score", FALSE)
    IN  [r \in DOMAIN ascending |-> ascending[Len(ascending) + 1 - r]]

\* ranked = sorted(sentences, key=itemgetter('score'), reverse=True), each
\* sentence with its text.
Ranked(data, sentences) ==
    sorted([k \in DOMAIN sentences |->
               ("text" :> get_text(data, sentences[k])) @@ sentences[k]],
           "score", TRUE)

\* The selection left in the order of the ranking.
TopNInRankOrder(ranked, count) == Slice(ranked, 0, count)

\* top_n = sorted(ranked[:n], key=extent)
TopN(ranked, count) == sorted(Slice(ranked, 0, count), "extent", FALSE)

\* n without the floor of 1: int(len(sentences) * summarize_percent).
DerivedNUnfloored(total, percent) ==
    FloatFloor(FloatMul(FloatDiv(total, 1), FloatDiv(percent[1], percent[2])))

\* Lines 596-597: n = max(int(len(sentences) * summarize_percent), 1), the
\* percent being the float percent[1] / percent[2].
DerivedN(total, percent) ==
    Max(FloatFloor(FloatMul(FloatDiv(total, 1), FloatDiv(percent[1], percent[2]))), 1)

\* Lines 595-610, after score_sentences has returned.  The arguments are read
\* here: args keeps them as passed, an absent n as the empty set and n = k as
\* the set {k}.  n is derived from the percent, or the percent from n, which
\* divides by the number of sentences; then the sentences are ranked, the
\* first n selected, joined in reading order and the summary section written.
Summarize(percent, explicitN) ==
    /\ pc = "sweep"
    /\ i = Len(adm.sentences)
    /\ args' = [summarize_percent |-> percent, n |-> explicitN]
    /\ IF explicitN # {} /\ Len(adm.sentences) = 0
       THEN /\ pc' = "raised"
            /\ err' = ZeroDivisionError
            /\ n' = CHOOSE k \in explicitN : TRUE
            /\ summarize_percent' = percent
            /\ UNCHANGED <<adm, top_n>>
       ELSE LET count == IF explicitN = {}
                         THEN DerivedN(Len(adm.sentences), percent)
                         ELSE CHOOSE k \in explicitN : TRUE
                reported == IF explicitN = {} THEN percent
                            ELSE <<count, Len(adm.sentences)>>
                ranked == Ranked(adm.data, adm.sentences)
                selected == TopN(ranked, count)
            IN  /\ n' = count
                /\ summarize_percent' = reported
                /\ top_n' = selected
                /\ adm' = [data |-> adm.data,
                           sentences |-> [k \in DOMAIN adm.sentences |->
                               ("text" :> get_text(adm.data, adm.sentences[k]))
                                   @@ adm.sentences[k]],
                           tokens |-> adm.tokens,
                           entities |-> adm.entities,
                           summary |->
                               [info |-> [n |-> count,
                                          percent |-> FormatPercent(reported)],
                                ranked |-> ranked,
                                summary |-> join([k \in DOMAIN selected |->
                                                    rstrip(selected[k].text)])]]
                /\ pc' = "done"
                /\ UNCHANGED err
    /\ UNCHANGED <<lemma_frequencies, entity_frequencies, tokens, mentions,
                   token, mention, i>>

Next ==
    \/ ScoreSetup
    \/ ScoreSentence
    \/ \E percent \in Percents : Summarize(percent, {})
    \/ \E percent \in AnyPercent, k \in ExplicitN : Summarize(percent, {k})

Spec == Init /\ [][Next]_vars
SpecEntities == InitEntities /\ [][Next]_vars
SpecOffsets == InitOffsets /\ [][Next]_vars
SpecAnalyses == InitAnalyses /\ [][Next]_vars
SpecDecay == InitDecay /\ [][Next]_vars

\* ================================================================ claims
\* The sentences score_sentences has scored so far, and whether it has
\* scored them all.
Scored == IF pc \in {"sweep", "done"} THEN 1..i ELSE {}
SweepDone == pc \in {"sweep", "done"} /\ i = Len(adm.sentences)

RECURSIVE SumTokenLength(_)
SumTokenLength(sentences) ==
    IF Len(sentences) = 0 THEN 0
    ELSE Head(sentences).tokenLength + SumTokenLength(Tail(sentences))

OverlapsSome(obj) ==
    \E k \in DOMAIN adm.sentences : overlaps(obj, adm.sentences[k]) # {}

\* C1: once every sentence is scored, the tokenLength of all sentences sum to
\* the number of tokens that overlap at least one sentence: no token is
\* counted twice and none is dropped.
C1_SweepConservation ==
    SweepDone =>
        SumTokenLength(adm.sentences)
            = Cardinality({j \in DOMAIN adm.tokens : OverlapsSome(adm.tokens[j])})

\* C2: the entity frequency distribution is keyed by the owning entity's id:
\* the count under an entity's id is the number of its mentions of a
\* contentful type.
C2_EntityFrequencyById ==
    pc \in {"sweep", "done"} =>
        \A e \in DOMAIN adm.entities :
            Get(entity_frequencies, adm.entities[e].entityId, 0)
                = IF adm.entities[e].type \in CONTENTFUL_ENTITY_TYPES
                  THEN Len(adm.entities[e].mentions) ELSE 0

\* The frequency the sweep looks up for a mention, and the mentions of the
\* document that overlap a sentence.
MentionFrequency(m) == score(m, entity_frequencies, "entity_key")
OverlappingMentions(sentence) ==
    LET ms == entity_mentions(adm.entities)
    IN  {j \in DOMAIN ms : overlaps(ms[j], sentence) # {}}

RECURSIVE SumFrequency(_, _)
SumFrequency(ms, js) ==
    IF js = {} THEN 0
    ELSE LET j == CHOOSE x \in js : TRUE
         IN  MentionFrequency(ms[j]) + SumFrequency(ms, js \ {j})

\* C3 as stated: every scored sentence with tokenLength = 0 has score 0.0,
\* whatever the mentions added to it.
C3_ZeroLengthScoresZero ==
    \A k \in Scored :
        adm.sentences[k].tokenLength = 0 => ScoreIsZero(adm.sentences[k].score)

\* C3 amended: a scored sentence with tokenLength = 0 is divided by 1, so its
\* score is the sum of the mention frequencies added to it times the log of
\* its position: at most the frequencies of the mentions that overlap it, and
\* 0.0 when no mention that overlaps it has a non-zero frequency.
C3_ZeroLengthScore ==
    \A k \in Scored :
        adm.sentences[k].tokenLength = 0 =>
            LET sc == adm.sentences[k].score
                over == OverlappingMentions(adm.sentences[k])
                ms == entity_mentions(adm.entities)
            IN  /\ sc.den = 1
                /\ sc.arg = Len(adm.sentences) - k + 2
                /\ sc.num <= SumFrequency(ms, over)
                /\ (\A j \in over : MentionFrequency(ms[j]) = 0) => ScoreIsZero(sc)

\* C3 witness: a scored sentence without tokens that mentions overlap, all of
\* them of frequency 0, and its score is 0.0.
C3_Witness ==
    \E k \in Scored :
        /\ adm.sentences[k].tokenLength = 0
        /\ OverlappingMentions(adm.sentences[k]) # {}
        /\ ScoreIsZero(adm.sentences[k].score)

\* The number of sentences joined into the summary: its lines.
SummaryLines ==
    LET text == adm.summary.summary
    IN  IF Len(adm.sentences) = 0 THEN 0
        ELSE 1 + Cardinality({c \in DOMAIN text : text[c] = "\n"})

\* C4: for a document of T >= 1 sentences, the number of sentences selected is
\* max(floor(T * percent), 1), within 1..T, when no n is given, and min(n, T)
\* when n is given, whatever the percent.
C4_SelectionCount ==
    (pc = "done" /\ Len(adm.sentences) >= 1) =>
        LET T == Len(adm.sentences)
            p == args.summarize_percent
        IN  /\ SummaryLines = Len(top_n)
            /\ IF args.n = {}
               THEN /\ Len(top_n) \in 1..T
                    /\ \E f \in 0..T :
                          /\ f * p[2] <= T * p[1]
                          /\ T * p[1] < (f + 1) * p[2]
                          /\ Len(top_n) = Max(f, 1)
               ELSE \A k \in args.n : Len(top_n) = Min(k, T)

\* C4 witness: a percent that selects more than one sentence and not all.
C4_Witness ==
    /\ pc = "done"
    /\ args.n = {}
    /\ Len(top_n) > 1
    /\ Len(top_n) < Len(adm.sentences)

\* The place of a ranked sentence in the original list of sentences.
OriginalIndex(sentence) ==
    CHOOSE k \in DOMAIN adm.sentences : adm.sentences[k] = sentence

\* C5: ranked is a permutation of all the sentences, the greater score first,
\* and sentences of equal score in their original order.
C5_RankedStable ==
    pc = "done" =>
        LET ranked == adm.summary.ranked
        IN  /\ Len(ranked) = Len(adm.sentences)
            /\ \A k \in DOMAIN adm.sentences :
                  Cardinality({r \in DOMAIN ranked : ranked[r] = adm.sentences[k]}) = 1
            /\ \A a, b \in DOMAIN ranked :
                  a < b =>
                     /\ ~ScoreLess(ranked[a].score, ranked[b].score)
                     /\ ~ScoreLess(ranked[b].score, ranked[a].score)
                           => OriginalIndex(ranked[a]) < OriginalIndex(ranked[b])

\* C5 witness: a ranking that moves a later sentence before an earlier one
\* and holds two sentences of equal score.
C5_Witness ==
    /\ pc = "done"
    /\ \E a, b \in DOMAIN adm.summary.ranked :
          /\ a < b
          /\ OriginalIndex(adm.summary.ranked[a]) > OriginalIndex(adm.summary.ranked[b])
    /\ \E a, b \in DOMAIN adm.summary.ranked :
          /\ a < b
          /\ ~ScoreLess(adm.summary.ranked[a].score, adm.summary.ranked[b].score)
          /\ ~ScoreLess(adm.summary.ranked[b].score, adm.summary.ranked[a].score)

\* The letters of the summary: its characters other than the line feeds.
SummaryLetters == SelectSeq(adm.summary.summary, LAMBDA c : c # "\n")

\* C6: the sentences joined into the summary are the first n of the ranking,
\* in ascending order of (startOffset, endOffset), each strictly after the one
\* before it.
C6_ReadingOrder ==
    pc = "done" =>
        LET ranked == adm.summary.ranked
            first == 1..Min(n, Len(ranked))
        IN  /\ {top_n[k] : k \in DOMAIN top_n} = {ranked[r] : r \in first}
            /\ Len(top_n) = Cardinality(first)
            /\ \A k \in 1..(Len(top_n) - 1) :
                  /\ top_n[k].startOffset < top_n[k + 1].startOffset
                  /\ ~ExtentLess(top_n[k + 1], top_n[k])
            /\ SummaryLetters = [k \in DOMAIN top_n |-> top_n[k].text[1]]

\* C6 witness: the first n of the ranking are not in reading order.
C6_Witness ==
    /\ pc = "done"
    /\ \E a, b \in 1..Min(n, Len(adm.summary.ranked)) :
          /\ a < b
          /\ ExtentLess(adm.summary.ranked[b], adm.summary.ranked[a])

\* C7: on an empty list of sentences summarize ends with a named error of its
\* own: it does not return with a summary written, nor raise a division by
\* zero.
C7_EmptyInputNamedError ==
    (Len(adm.sentences) = 0 /\ pc \in {"done", "raised"}) =>
        /\ pc = "raised"
        /\ err \notin {None, ZeroDivisionError, IndexError}
        /\ "summary" \notin DOMAIN adm

\* C8: info reports n and the effective percentage n / len(sentences), in both
\* modes.
C8_InfoEffectivePercent ==
    (pc = "done" /\ Len(adm.sentences) >= 1) =>
        adm.summary.info = [n |-> n, percent |-> FormatPercent(<<n, Len(adm.sentences)>>)]

\* An item that lacks startOffset, endOffset or both.
LacksOffset(obj) == {"startOffset", "endOffset"} \ DOMAIN obj # {}
HasOffsets(items) == {j \in DOMAIN items : ~LacksOffset(items[j])}

\* C9: an item that lacks an offset has the extent (-1, -1) and overlaps no
\* sentence, so that it adds to no sentence's tokenLength or score: a sentence
\* counts no more tokens than the tokens with both offsets that overlap it,
\* and a sentence without tokens scores no more than the mentions with both
\* offsets that overlap it.
C9_MissingOffsetsInert ==
    pc \in {"sweep", "done"} =>
        LET ms == entity_mentions(adm.entities)
        IN  /\ \A j \in DOMAIN adm.tokens :
                  LacksOffset(adm.tokens[j]) =>
                     /\ extent(adm.tokens[j]) = <<-1, -1>>
                     /\ ~OverlapsSome(adm.tokens[j])
            /\ \A j \in DOMAIN ms :
                  LacksOffset(ms[j]) =>
                     /\ extent(ms[j]) = <<-1, -1>>
                     /\ ~OverlapsSome(ms[j])
            /\ \A k \in Scored :
                  /\ adm.sentences[k].tokenLength
                        <= Cardinality({j \in HasOffsets(adm.tokens) :
                              overlaps(adm.tokens[j], adm.sentences[k]) # {}})
                  /\ adm.sentences[k].tokenLength = 0 =>
                        adm.sentences[k].score.num
                           <= SumFrequency(ms, OverlappingMentions(adm.sentences[k])
                                                  \cap HasOffsets(ms))

\* A token without a first analysis: no analyses field, or an empty list.
NoFirstAnalysis(tok) == Len(Get(tok, "analyses", << >>)) = 0

\* C10: a token without a first analysis has the empty analysis: lemma_fd and
\* score_sentences end without an error, and the token's key is no key of the
\* lexical frequency distribution, so that it adds 0 to every score.
C10_MissingAnalysesHarmless ==
    /\ err # IndexError
    /\ pc \in {"sweep", "done"} =>
          \A j \in DOMAIN adm.tokens :
              NoFirstAnalysis(adm.tokens[j]) =>
                 /\ DOMAIN analysis(adm.tokens[j]) = {}
                 /\ score(adm.tokens[j], lemma_frequencies, "token_key") = 0

\* The pairs of scored sentences, the first earlier in the document, with the
\* same raw score (the sum of frequencies before the division) and the same
\* tokenLength.
SameRawPairs ==
    {p \in Scored \X Scored :
        /\ p[1] < p[2]
        /\ adm.sentences[p[1]].score.num = adm.sentences[p[2]].score.num
        /\ adm.sentences[p[1]].tokenLength = adm.sentences[p[2]].tokenLength}

\* C11 as stated: of two sentences with the same raw score and the same
\* tokenLength, the earlier one has the strictly greater final score.
C11_EarlierStrictlyGreater ==
    \A p \in SameRawPairs :
        ScoreLess(adm.sentences[p[2]].score, adm.sentences[p[1]].score)

\* C11 amended: the decay weight of the sentence of zero-based index i is
\* ln(N - i + 1), from ln(N + 1) for the first sentence down to ln 2 for the
\* last; of two sentences with the same raw score and the same tokenLength,
\* the earlier one has the strictly greater final score when the raw score is
\* not 0, and both final scores are 0.0 when it is 0.
C11_DecayMonotone ==
    /\ \A k \in Scored :
           /\ adm.sentences[k].score.arg = Len(adm.sentences) - (k - 1) + 1
           /\ adm.sentences[k].score.arg \in 2 .. (Len(adm.sentences) + 1)
    /\ \A p \in SameRawPairs :
           LET early == adm.sentences[p[1]].score
               late == adm.sentences[p[2]].score
           IN  /\ FloatLess(log(late.arg), log(early.arg))
               /\ early.num # 0 => ScoreLess(late, early)
               /\ early.num = 0 => ScoreIsZero(early) /\ ScoreIsZero(late)

\* C11 witness: two scored sentences with the same non-zero raw score and the
\* same tokenLength, the earlier one with the greater final score.
C11_Witness ==
    \E p \in SameRawPairs :
        /\ adm.sentences[p[1]].score.num > 0
        /\ ScoreLess(adm.sentences[p[2]].score, adm.sentences[p[1]].score)

\* The frequencies of the tokens of the document that overlap a sentence.
RECURSIVE SumTokenFrequency(_, _)
SumTokenFrequency(ts, js) ==
    IF js = {} THEN 0
    ELSE LET j == CHOOSE x \in js : TRUE
         IN  score(ts[j], lemma_frequencies, "token_key")
                 + SumTokenFrequency(ts, js \ {j})

OverlappingTokens(sentence) ==
    {j \in DOMAIN adm.tokens : overlaps(adm.tokens[j], sentence) # {}}

\* C12: once every sentence is scored, every mention that overlaps a sentence
\* has had its frequency added to that sentence's raw score exactly once: the
\* raw score less the frequencies of the sentence's tokens is the sum of the
\* frequencies of the mentions that overlap the sentence.  A mention that lies
\* in a later sentence is not consumed by an earlier one.
C12_MentionAttribution ==
    SweepDone =>
        \A k \in DOMAIN adm.sentences :
            adm.sentences[k].score.num
                - SumTokenFrequency(adm.tokens, OverlappingTokens(adm.sentences[k]))
              = SumFrequency(entity_mentions(adm.entities),
                             OverlappingMentions(adm.sentences[k]))

====
